---- MODULE Spec2Model ----
(***************************************************************************)
(* SimConnectSourceEvents: a block that turns the event notifications of a *)
(* SimConnect connection into seven output signals, sampled once per step. *)
(* Modelled from src/src/SimConnectSourceEvents/SimConnectSourceEvents.cpp *)
(***************************************************************************)
EXTENDS Integers, Sequences, FiniteSets, TLC

\* ------------------------------------------------------------------ bounds
\* Longest queue of pending records the external source holds.
MaxPending == 2
\* Number of connection handles the external source ever hands out.
MaxHandles == 2
\* Number of registration/priority calls that may fail in one initialize.
MaxFail == 1

\* --------------------------------------------------------- program constants
\* the loop bound of output(): for (kI = 0; kI < 7; ++kI)
NumOutputs == 7
\* simConnectHandle = nullptr
NullHandle == 0

OutputPorts == 0 .. (NumOutputs - 1)

\* Payloads (dwData) the external source sends with the value-carrying events
\* 2 and 3 (0 is the baseline value), and with every other event (a value that
\* is neither 0 nor 1).
Payloads == {0, 3}
PayloadsOf(i) == IF i \in {2, 3} THEN Payloads ELSE {3}
\* uEventID values the external source sends; 8 is an id the switch ignores.
EventIds == 0 .. 8

\* A record as SimConnect_GetNextDispatch yields it (dwID, uEventID, dwData).
Event(i, p) == [dwID |-> "EVENT", uEventID |-> i, dwData |-> p]
OtherRecord == [dwID |-> "OTHER", uEventID |-> 0, dwData |-> 0]
NoRecord == [dwID |-> "NONE", uEventID |-> 0, dwData |-> 0]
Records ==
  UNION {{Event(i, p) : p \in PayloadsOf(i)} : i \in EventIds} \cup {OtherRecord}

VARIABLES
  data,              \* the accumulator (member data)
  simConnectHandle,  \* the member handle
  opened,            \* handles the external source holds open
  nextHandle,        \* the next handle SimConnect_Open hands out
  pending,           \* the records queued on the held connection
  lifecycle,         \* UNINITIALIZED; CONNECTED once an initialize returned true;
                     \* TERMINATED once terminate ran on a CONNECTED block
  lastOp,            \* the last transition: none, arrive, initialize, output, terminate
  ret,               \* what the last operation returned: "none", "true" or "false"
  calls,             \* the SimConnect calls the last operation issued, in order
  written,           \* the output signals the last operation set: port -> value
  idleSteps,         \* consecutive successful steps that consumed no event record (capped at 2)
  pc                 \* idle, or drain while processDispatch loops

vars == <<data, simConnectHandle, opened, nextHandle, pending, lifecycle,
          lastOp, ret, calls, written, idleSteps, pc>>

\* ------------------------------------------------------------ accumulator
\* The values output() resets the accumulator to.
Baseline ==
  [apMaster |-> 0, apMasterOff |-> 0, headingSlotIndexSet |-> 0,
   altitudeSlotIndexSet |-> 0, apPanelVsOn |-> 0, apLocHold |-> 0,
   apAprHold |-> 0]

\* The accumulator and the handle of a freshly constructed block.
InitData == Baseline
InitHandle == NullHandle

\* Faulty variants of dispatchProcedure: a counting pulse; no case 7; first
\* write wins.
dispatchProcedureCounting(d, pData) ==
  IF pData.dwID = "EVENT" /\ pData.uEventID = 0
  THEN [d EXCEPT !.apMaster = @ + 1]
  ELSE IF pData.dwID = "EVENT" /\ pData.uEventID \in {6, 7}
  THEN [d EXCEPT !.apAprHold = 1]
  ELSE d

dispatchProcedureNo7(d, pData) ==
  IF pData.dwID = "EVENT" /\ pData.uEventID = 6
  THEN [d EXCEPT !.apAprHold = 1]
  ELSE IF pData.dwID = "EVENT" /\ pData.uEventID = 0
  THEN [d EXCEPT !.apMaster = 1]
  ELSE d

dispatchProcedureFirstWins(d, pData) ==
  IF pData.dwID = "EVENT" /\ pData.uEventID = 2 /\ d.headingSlotIndexSet = 0
  THEN [d EXCEPT !.headingSlotIndexSet = pData.dwData]
  ELSE IF pData.dwID = "EVENT" /\ pData.uEventID = 3 /\ d.altitudeSlotIndexSet = 0
  THEN [d EXCEPT !.altitudeSlotIndexSet = pData.dwData]
  ELSE d

\* Faulty variant: the record kind is not looked at and an unknown index falls
\* into the last case.
dispatchProcedureNoDefault(d, pData) ==
  CASE pData.uEventID = 0 -> [d EXCEPT !.apMaster = 1]
    [] pData.uEventID = 1 -> [d EXCEPT !.apMasterOff = 1]
    [] pData.uEventID = 2 -> [d EXCEPT !.headingSlotIndexSet = pData.dwData]
    [] pData.uEventID = 3 -> [d EXCEPT !.altitudeSlotIndexSet = pData.dwData]
    [] pData.uEventID = 4 -> [d EXCEPT !.apPanelVsOn = 1]
    [] pData.uEventID = 5 -> [d EXCEPT !.apLocHold = 1]
    [] OTHER -> [d EXCEPT !.apAprHold = 1]

\* Faulty variant: a pulse field takes the payload.
dispatchProcedurePayloadPulse(d, pData) ==
  IF pData.dwID = "EVENT" /\ pData.uEventID = 4
  THEN [d EXCEPT !.apPanelVsOn = pData.dwData]
  ELSE IF pData.dwID = "EVENT" /\ pData.uEventID = 0
  THEN [d EXCEPT !.apMaster = 1]
  ELSE d

\* dispatchProcedure: the accumulator after one record.
dispatchProcedure(d, pData) ==
  IF pData.dwID = "EVENT"
  THEN CASE pData.uEventID = 0 -> [d EXCEPT !.apMaster = 1]
         [] pData.uEventID = 1 -> [d EXCEPT !.apMasterOff = 1]
         [] pData.uEventID = 2 -> [d EXCEPT !.headingSlotIndexSet = pData.dwData]
         [] pData.uEventID = 3 -> [d EXCEPT !.altitudeSlotIndexSet = pData.dwData]
         [] pData.uEventID = 4 -> [d EXCEPT !.apPanelVsOn = 1]
         [] pData.uEventID = 5 -> [d EXCEPT !.apLocHold = 1]
         [] pData.uEventID \in {6, 7} -> [d EXCEPT !.apAprHold = 1]
         [] OTHER -> d
  ELSE d

\* The seven assignments outputSignals[i]->set(0, data.<field>).
WriteAll(d) ==
  [i \in OutputPorts |->
     CASE i = 0 -> d.apMaster
       [] i = 1 -> d.apMasterOff
       [] i = 2 -> d.headingSlotIndexSet
       [] i = 3 -> d.altitudeSlotIndexSet
       [] i = 4 -> d.apPanelVsOn
       [] i = 5 -> d.apLocHold
       [] i = 6 -> d.apAprHold]

\* No output signal set.
NoWrites == <<>>

\* ------------------------------------------------- the external connection
\* One call on the SimConnect API, as the last operation issued it: the handle
\* passed and whether it was an open connection at that moment, the arguments,
\* the reply.
Call(fn, h, live, id, name, val, ok, rec) ==
  [fn |-> fn, h |-> h, live |-> live, grp |-> -1, id |-> id, name |-> name,
   val |-> val, ok |-> ok, rec |-> rec]

\* A call that also names a notification group.
GroupCall(fn, h, live, grp, id, name, val, ok, rec) ==
  [Call(fn, h, live, id, name, val, ok, rec) EXCEPT !.grp = grp]

\* SimConnect_GetNextDispatch on handle h with queue q: the head record, or
\* failure when nothing is pending or the handle is no open connection.
GetNextDispatch(h, q) ==
  IF h \in opened /\ q # <<>>
  THEN [ok |-> TRUE, rec |-> Head(q), rest |-> Tail(q)]
  ELSE [ok |-> FALSE, rec |-> NoRecord, rest |-> q]

\* ------------------------------------------------------------ processDispatch
\* Faulty variant of the loop condition: the loop goes on whatever the reply.
SUCCEEDEDAlways(r) == TRUE

\* while (SUCCEEDED(SimConnect_GetNextDispatch(...)))
SUCCEEDED(r) == r.ok

GetNextDispatchCall(h, r) ==
  Call("GetNextDispatch", h, h \in opened, -1, "", -1, r.ok, r.rec)

\* Faulty variant of processDispatch: an if in place of the while, one record a step.
processDispatchOnce(h, q, d, log) ==
  LET r == GetNextDispatch(h, q)
  IN  IF r.ok
      THEN [data |-> dispatchProcedure(d, r.rec), pending |-> r.rest,
            calls |-> Append(log, GetNextDispatchCall(h, r))]
      ELSE [data |-> d, pending |-> r.rest,
            calls |-> Append(log, GetNextDispatchCall(h, r))]

\* processDispatch run to its end from queue q and accumulator d: the
\* accumulator, the queue left and the requests issued.
RECURSIVE processDispatch(_, _, _, _)
processDispatch(h, q, d, log) ==
  LET r == GetNextDispatch(h, q)
  IN  IF SUCCEEDED(r)
      THEN processDispatch(h, r.rest, dispatchProcedure(d, r.rec),
                           Append(log, GetNextDispatchCall(h, r)))
      ELSE [data |-> d, pending |-> r.rest,
            calls |-> Append(log, GetNextDispatchCall(h, r))]

\* ---------------------------------------------------------------- output
\* The for loop over getOutputPortSignal(kI), kI = 0..6, which returns at the
\* first null signal: firstNull is the index of that signal, or NumOutputs when
\* all seven are valid. The loop has stored firstNull signals when it ends.
FirstNulls == 0 .. NumOutputs
AllResolved(firstNull) == firstNull = NumOutputs

\* Faulty variant of the reset: the accumulator is left as it is.
ResetSkipped(d) == d

\* The seven assignments data.<field> = 0.
Reset(d) == Baseline

\* Faulty variant of the failed step: the drain runs before the signals are resolved.
FailedStepAfterDrain(h, q, d) ==
  LET r == processDispatch(h, q, d, <<>>)
  IN  [data |-> r.data, pending |-> r.pending, calls |-> r.calls,
       written |-> NoWrites]

\* output() when a signal is not valid: return false before anything else.
FailedStep(h, q, d) ==
  [data |-> d, pending |-> q, calls |-> <<>>, written |-> NoWrites]

\* output() with all signals valid: drain, write, reset.
SuccessfulStep(h, q, d) ==
  LET r == processDispatch(h, q, d, <<>>)
  IN  [data |-> Reset(r.data), pending |-> r.pending, calls |-> r.calls,
       written |-> WriteAll(r.data)]

\* The records a sequence of calls consumed, in order.
RECURSIVE Consumed(_)
Consumed(log) ==
  IF log = <<>> THEN <<>>
  ELSE IF Head(log).fn = "GetNextDispatch" /\ Head(log).ok
       THEN <<Head(log).rec>> \o Consumed(Tail(log))
       ELSE Consumed(Tail(log))

HasEvent(w) == \E k \in 1 .. Len(w) : w[k].dwID = "EVENT"

IdleCap == 2
IdleAfter(n, w) == IF HasEvent(w) THEN 0 ELSE IF n < IdleCap THEN n + 1 ELSE IdleCap

Output ==
  /\ pc = "idle"
  /\ \E firstNull \in FirstNulls :
       LET ok == AllResolved(firstNull)
           s == IF ~ok
                THEN FailedStep(simConnectHandle, pending, data)
                ELSE SuccessfulStep(simConnectHandle, pending, data)
       IN  /\ data' = s.data
           /\ pending' = s.pending
           /\ calls' = s.calls
           /\ written' = s.written
           /\ ret' = IF ~ok THEN "false" ELSE "true"
           /\ idleSteps' = IF ~ok THEN idleSteps
                           ELSE IdleAfter(idleSteps, Consumed(s.calls))
  /\ lastOp' = "output"
  /\ UNCHANGED <<simConnectHandle, opened, nextHandle, lifecycle, pc>>

\* -------------------------------------------------------------- terminate
\* Faulty variant of terminate: a null handle is not closed.
TerminateGuarded ==
  /\ pc = "idle"
  /\ calls' = IF simConnectHandle = NullHandle THEN <<>>
              ELSE <<Call("Close", simConnectHandle, simConnectHandle \in opened,
                          -1, "", -1, simConnectHandle \in opened, NoRecord)>>
  /\ opened' = opened \ {simConnectHandle}
  /\ simConnectHandle' = NullHandle
  /\ pending' = <<>>
  /\ lifecycle' = IF lifecycle = "CONNECTED" THEN "TERMINATED" ELSE lifecycle
  /\ lastOp' = "terminate"
  /\ ret' = "true"
  /\ written' = NoWrites
  /\ UNCHANGED <<data, nextHandle, idleSteps, pc>>

Terminate ==
  /\ pc = "idle"
  /\ calls' = <<Call("Close", simConnectHandle, simConnectHandle \in opened,
                     -1, "", -1, simConnectHandle \in opened, NoRecord)>>
  /\ opened' = opened \ {simConnectHandle}
  /\ simConnectHandle' = NullHandle
  /\ pending' = <<>>
  /\ lifecycle' = IF lifecycle = "CONNECTED" THEN "TERMINATED" ELSE lifecycle
  /\ lastOp' = "terminate"
  /\ ret' = "true"
  /\ written' = NoWrites
  /\ UNCHANGED <<data, nextHandle, idleSteps, pc>>

\* ------------------------------------------------------ the external source
\* The simulation queues one more record on the held connection.
Arrive ==
  /\ pc = "idle"
  /\ simConnectHandle \in opened
  /\ Len(pending) < MaxPending
  /\ \E r \in Records : pending' = Append(pending, r)
  /\ lastOp' = "arrive"
  /\ ret' = "none"
  /\ calls' = <<>>
  /\ written' = NoWrites
  /\ UNCHANGED <<data, simConnectHandle, opened, nextHandle, lifecycle,
                 idleSteps, pc>>

\* -------------------------------------------------------------- initialize
\* The addEvent calls of initialize, in order: eventId, eventName, shouldMask.
Bindings ==
  << [id |-> 0, name |-> "AP_MASTER", mask |-> TRUE],
     [id |-> 1, name |-> "AUTOPILOT_OFF", mask |-> FALSE],
     [id |-> 2, name |-> "HEADING_SLOT_INDEX_SET", mask |-> FALSE],
     [id |-> 3, name |-> "ALTITUDE_SLOT_INDEX_SET", mask |-> FALSE],
     [id |-> 4, name |-> "AP_PANEL_VS_ON", mask |-> FALSE],
     [id |-> 5, name |-> "AP_LOC_HOLD", mask |-> FALSE],
     [id |-> 6, name |-> "AP_LOC_HOLD_OFF", mask |-> FALSE],
     [id |-> 7, name |-> "AP_APR_HOLD_ON", mask |-> FALSE] >>

\* The external replies of one initialize: each registration call of each
\* binding and the priority call has a slot, and F is the set of slots whose
\* call fails.
MapSlot(k) == 2 * k - 1
AttachSlot(k) == 2 * k
PrioritySlot == 2 * Len(Bindings) + 1
Slots == 1 .. PrioritySlot

RECURSIVE FailSetsUpTo(_)
FailSetsUpTo(n) ==
  IF n = 0 THEN {{}}
  ELSE LET S == FailSetsUpTo(n - 1)
       IN  S \cup {s \cup {a} : s \in S, a \in Slots}
FailSets == FailSetsUpTo(MaxFail)

\* Faulty variant of addEvent: the attachment is issued whatever the mapping
\* returned.
addEventAttachAlways(h, k, F) ==
  LET b == Bindings[k]
      mapOk == MapSlot(k) \notin F
      attOk == AttachSlot(k) \notin F
      map == Call("MapClientEventToSimEvent", h, TRUE, b.id, b.name, -1,
                  mapOk, NoRecord)
      att == GroupCall("AddClientEventToNotificationGroup", h, TRUE, 0, b.id,
                       "", IF b.mask THEN 1 ELSE 0, attOk, NoRecord)
  IN  [ok |-> mapOk /\ attOk, calls |-> <<map, att>>]

\* addEvent for the k-th binding on handle h: the result and the calls issued.
addEvent(h, k, F) ==
  LET b == Bindings[k]
      mapOk == MapSlot(k) \notin F
      attOk == AttachSlot(k) \notin F
      map == Call("MapClientEventToSimEvent", h, TRUE, b.id, b.name, -1,
                  mapOk, NoRecord)
      att == GroupCall("AddClientEventToNotificationGroup", h, TRUE, 0, b.id,
                       "", IF b.mask THEN 1 ELSE 0, attOk, NoRecord)
  IN  IF ~mapOk THEN [ok |-> FALSE, calls |-> <<map>>]
      ELSE IF ~attOk THEN [ok |-> FALSE, calls |-> <<map, att>>]
      ELSE [ok |-> TRUE, calls |-> <<map, att>>]

\* Faulty variant of the accumulation: plain assignment, the last result wins.
Assign(boolResult, r) == r

\* boolResult &= addEvent(...)
AndAssign(boolResult, r) == boolResult /\ r

\* The addEvent calls from the k-th binding on.
RECURSIVE addEvents(_, _, _, _, _)
addEvents(k, h, F, boolResult, log) ==
  IF k > Len(Bindings) THEN [ok |-> boolResult, calls |-> log]
  ELSE LET r == addEvent(h, k, F)
       IN  addEvents(k + 1, h, F, AndAssign(boolResult, r.ok), log \o r.calls)

\* Faulty variant of the try block: the priority call is left out once an
\* addEvent failed.
registerEventsShortCircuit(h, F) ==
  LET r == addEvents(1, h, F, TRUE, <<>>)
      prOk == PrioritySlot \notin F
      pr == GroupCall("SetNotificationGroupPriority", h, TRUE, 0, -1,
                      "HIGHEST_MASKABLE", -1, prOk, NoRecord)
  IN  IF ~r.ok THEN [ok |-> FALSE, calls |-> r.calls]
      ELSE [ok |-> prOk, calls |-> Append(r.calls, pr)]

\* The try block of initialize on the opened handle h: all addEvent calls,
\* then SimConnect_SetNotificationGroupPriority, then the test of both.
registerEvents(h, F) ==
  LET r == addEvents(1, h, F, TRUE, <<>>)
      prOk == PrioritySlot \notin F
      pr == GroupCall("SetNotificationGroupPriority", h, TRUE, 0, -1,
                      "HIGHEST_MASKABLE", -1, prOk, NoRecord)
  IN  [ok |-> ~(~prOk \/ ~r.ok), calls |-> Append(r.calls, pr)]

OpenCall(ok) == Call("Open", NullHandle, FALSE, -1, "", -1, ok, NoRecord)

\* initialize() with its inputs: whether the base class and the parameters
\* are fine, whether SimConnect_Open succeeds, which later calls fail.
InitializeWith(paramsOk, openOk, F) ==
  IF ~paramsOk
  THEN /\ ret' = "false"
       /\ calls' = <<>>
       /\ UNCHANGED <<simConnectHandle, opened, nextHandle, pending, lifecycle>>
  ELSE IF ~openOk
  THEN /\ ret' = "false"
       /\ calls' = <<OpenCall(FALSE)>>
       /\ UNCHANGED <<simConnectHandle, opened, nextHandle, pending, lifecycle>>
  ELSE LET h == nextHandle
           r == registerEvents(h, F)
       IN  /\ simConnectHandle' = h
           /\ opened' = opened \cup {h}
           /\ nextHandle' = h + 1
           /\ pending' = <<>>
           /\ calls' = <<OpenCall(TRUE)>> \o r.calls
           /\ ret' = IF r.ok THEN "true" ELSE "false"
           /\ lifecycle' = IF r.ok THEN "CONNECTED" ELSE lifecycle

Initialize ==
  /\ pc = "idle"
  /\ \/ InitializeWith(FALSE, FALSE, {})
     \/ InitializeWith(TRUE, FALSE, {})
     \/ /\ nextHandle <= MaxHandles
        /\ \E F \in FailSets : InitializeWith(TRUE, TRUE, F)
  /\ lastOp' = "initialize"
  /\ written' = NoWrites
  /\ UNCHANGED <<data, idleSteps, pc>>

\* ------------------------------------------------------- the specification
Init ==
  /\ data = InitData
  /\ simConnectHandle = InitHandle
  /\ opened = {}
  /\ nextHandle = 1
  /\ pending = <<>>
  /\ lifecycle = "UNINITIALIZED"
  /\ lastOp = "none"
  /\ ret = "none"
  /\ calls = <<>>
  /\ written = NoWrites
  /\ idleSteps = 0
  /\ pc = "idle"

Next == Initialize \/ Output \/ Terminate \/ Arrive

Spec == Init /\ [][Next]_vars

\* ------------------------------------------- output(), one request at a time
\* The same output(), with processDispatch taken one loop iteration at a
\* time: OutputBegin resolves the signals and enters the loop, DispatchNext
\* is one evaluation of the loop condition and, on success, one
\* dispatchProcedure; on failure the loop ends and output() writes and resets.
OutputBegin ==
  /\ pc = "idle"
  /\ \E firstNull \in FirstNulls :
       LET s == FailedStep(simConnectHandle, pending, data)
       IN  IF ~AllResolved(firstNull)
           THEN /\ data' = s.data
                /\ pending' = s.pending
                /\ calls' = s.calls
                /\ written' = s.written
                /\ ret' = "false"
                /\ pc' = "idle"
           ELSE /\ calls' = <<>>
                /\ written' = NoWrites
                /\ ret' = "none"
                /\ pc' = "drain"
                /\ UNCHANGED <<data, pending>>
  /\ lastOp' = "output"
  /\ UNCHANGED <<simConnectHandle, opened, nextHandle, lifecycle, idleSteps>>

DispatchNext ==
  /\ pc = "drain"
  /\ LET r == GetNextDispatch(simConnectHandle, pending)
         log == Append(calls, GetNextDispatchCall(simConnectHandle, r))
     IN  /\ calls' = log
         /\ pending' = r.rest
         /\ IF SUCCEEDED(r)
            THEN /\ data' = dispatchProcedure(data, r.rec)
                 /\ UNCHANGED <<written, ret, idleSteps, pc>>
            ELSE /\ written' = WriteAll(data)
                 /\ data' = Reset(data)
                 /\ ret' = "true"
                 /\ idleSteps' = IdleAfter(idleSteps, Consumed(log))
                 /\ pc' = "idle"
  /\ UNCHANGED <<simConnectHandle, opened, nextHandle, lifecycle, lastOp>>

NextDrain == Initialize \/ OutputBegin \/ DispatchNext \/ Terminate \/ Arrive

\* The block runs on one thread: a loop that was entered goes on.
SpecDrain == Init /\ [][NextDrain]_vars /\ WF_vars(DispatchNext)

\* ================================================================== claims
\* A successful step has just returned.
StepDone == pc = "idle" /\ lastOp = "output" /\ ret = "true"

\* The records the last operation consumed: the step's drain window.
Window == Consumed(calls)

\* The event table as the specification states it.
PulseChannels == {0, 1, 4, 5, 6}
ValueChannels == {2, 3}
SourcesOf(c) == IF c = 6 THEN {6, 7} ELSE {c}
Fired(w, ids) ==
  \E k \in 1 .. Len(w) : w[k].dwID = "EVENT" /\ w[k].uEventID \in ids

RECURSIVE LastPayload(_, _)
LastPayload(w, id) ==
  IF w = <<>> THEN 0
  ELSE LET last == w[Len(w)]
       IN  IF last.dwID = "EVENT" /\ last.uEventID = id THEN last.dwData
           ELSE LastPayload(SubSeq(w, 1, Len(w) - 1), id)

Expected(w) ==
  [c \in OutputPorts |->
     IF c \in PulseChannels
     THEN (IF Fired(w, SourcesOf(c)) THEN 1 ELSE 0)
     ELSE LastPayload(w, c)]

AllZero == [c \in OutputPorts |-> 0]

\* C1: after every successful step each pulse channel (0, 1, 4, 5, 6) holds 1
\* if and only if a record mapping to it (6 or 7 for channel 6) was consumed
\* in the step's drain, and 0 otherwise, however often the event fired.
C1_PulseIffFired ==
  StepDone =>
    \A c \in PulseChannels :
      written[c] = IF Fired(Window, SourcesOf(c)) THEN 1 ELSE 0

\* A step that consumed the same pulse event twice and shows it as 1.
C1_Witness ==
  /\ StepDone
  /\ Len(Window) = 2
  /\ Window[1] = Event(0, 3)
  /\ Window[2] = Event(0, 3)
  /\ written[0] = 1
  /\ written[1] = 0

\* C2: after every successful step channels 2 and 3 hold the payload of the
\* last record with local index 2, respectively 3, consumed in the step's
\* drain, and 0 when there was none.
C2_ValueLastWins ==
  StepDone =>
    \A c \in ValueChannels : written[c] = LastPayload(Window, c)

\* A step that consumed two index-3 records with different payloads.
C2_Witness ==
  /\ StepDone
  /\ Len(Window) = 2
  /\ Window[1] = Event(3, 3)
  /\ Window[2] = Event(3, 0)
  /\ written[3] = 0
  /\ written[2] = 0

\* C3: channel 6 of a successful step is 1 whenever a record with local index
\* 6 or 7 was consumed, and a window of index-7 records alone gives channel 6
\* = 1 and every other channel 0.
C3_MergeSixSeven ==
  StepDone =>
    /\ Fired(Window, {6, 7}) => written[6] = 1
    /\ (Window # <<>> /\ \A k \in 1 .. Len(Window) :
                            Window[k].dwID = "EVENT" /\ Window[k].uEventID = 7)
         => written = [c \in OutputPorts |-> IF c = 6 THEN 1 ELSE 0]

\* A step whose window is one index-7 record.
C3_Witness ==
  /\ StepDone
  /\ Window = <<Event(7, 3)>>
  /\ written[6] = 1

\* C4: a step that fails on an unresolvable output signal sets no output
\* signal and leaves every accumulator field as it was before the call.
C4_FailedStepNoEffect ==
  [][(lastOp' = "output" /\ ret' = "false")
       => (written' = NoWrites /\ data' = data)]_vars

\* A failed step with event records pending.
C4_Witness ==
  /\ lastOp = "output"
  /\ ret = "false"
  /\ Len(pending) = 2
  /\ HasEvent(pending)
  /\ written = NoWrites

\* The calls initialize issues when nothing fails: the open, for every
\* binding the name mapping and the group attachment, the priority call.
FullRegistration(log) ==
  /\ Len(log) = 2 * Len(Bindings) + 2
  /\ log[1].fn = "Open"
  /\ \A k \in 1 .. Len(Bindings) :
       /\ log[2 * k].fn = "MapClientEventToSimEvent"
       /\ log[2 * k].id = Bindings[k].id
       /\ log[2 * k + 1].fn = "AddClientEventToNotificationGroup"
       /\ log[2 * k + 1].id = Bindings[k].id
  /\ log[Len(log)].fn = "SetNotificationGroupPriority"

\* C5: initialize returns failure whenever the open, a name mapping, a group
\* attachment or the priority call fails, and returns success only when the
\* open, both sub-registrations of every binding and the priority call were
\* all made and all succeeded.
C5_InitializeFailsOnAnyFailure ==
  lastOp = "initialize" =>
    /\ (\E k \in 1 .. Len(calls) : ~calls[k].ok) => ret = "false"
    /\ ret = "true" =>
         (FullRegistration(calls) /\ \A k \in 1 .. Len(calls) : calls[k].ok)

\* An initialize that failed because one group attachment failed, the
\* bindings after it and the priority call having succeeded.
C5_Witness ==
  /\ lastOp = "initialize"
  /\ ret = "false"
  /\ Len(calls) = 2 * Len(Bindings) + 2
  /\ ~calls[3].ok
  /\ calls[3].fn = "AddClientEventToNotificationGroup"
  /\ \A k \in 1 .. Len(calls) : k # 3 => calls[k].ok

\* C6: a successful step's output is decided by the records that became
\* pending since the previous drain and by nothing else, and the step leaves
\* none of them pending: each record shows in the output of the next
\* successful step and in no other.
C6_VisibleInNextStepOnly ==
  [][(lastOp' = "output" /\ ret' = "true")
       => (written' = Expected(pending) /\ pending' = <<>>)]_vars

\* A step that showed the one event that had arrived since the step before.
C6_Witness ==
  /\ StepDone
  /\ Window = <<Event(5, 3)>>
  /\ written[5] = 1
  /\ pending = <<>>
  /\ idleSteps = 0

\* C7: a successful step that consumed no event record, and so each of two
\* such steps in a row, writes 0 to all seven channels.
C7_IdleStepsAllZero ==
  (StepDone /\ idleSteps >= 1) => written = AllZero

\* The second of two successful steps in a row without an event record.
C7_Witness ==
  /\ StepDone
  /\ idleSteps >= 2
  /\ written = AllZero

\* While the loop runs every request so far yielded a record; when the step
\* has returned, its last request and only that one reported none.
DrainRequests ==
  /\ pc = "drain" => \A k \in 1 .. Len(calls) : calls[k].ok
  /\ StepDone =>
       /\ Len(calls) >= 1
       /\ ~calls[Len(calls)].ok
       /\ \A k \in 1 .. Len(calls) - 1 : calls[k].ok

\* C8: the drain requests no record after the source reported none, also
\* when the first request reports none, and with no new arrivals a drain that
\* was entered returns.
C8_DrainTerminates ==
  /\ [][DrainRequests']_vars
  /\ (pc = "drain") ~> (pc = "idle")

\* A drain that consumed two records and returned on the third request.
C8_Witness ==
  /\ StepDone
  /\ Len(calls) = 3
  /\ ~calls[3].ok

\* C9: the lifecycle moves only from UNINITIALIZED to CONNECTED, on a
\* successful initialize, and from CONNECTED to TERMINATED, on terminate; a
\* TERMINATED block does not become CONNECTED again.
C9_LifecycleForwardOnly ==
  [][lifecycle' # lifecycle =>
       \/ /\ lifecycle = "UNINITIALIZED"
          /\ lifecycle' = "CONNECTED"
          /\ lastOp' = "initialize"
          /\ ret' = "true"
       \/ /\ lifecycle = "CONNECTED"
          /\ lifecycle' = "TERMINATED"
          /\ lastOp' = "terminate"]_vars

\* The handles terminate has released.
Released == (1 .. (nextHandle - 1)) \ opened

\* C10: once terminate has released the handle, no operation passes a
\* released handle or the null handle to the connection.
C10_NoUseAfterRelease ==
  Released # {} =>
    \A k \in 1 .. Len(calls) : calls[k].fn # "Open" => calls[k].live

\* A record the switch of dispatchProcedure has no case for: not an event
\* notification, or an event whose index is outside 0..7.
Noise(rec) == rec.dwID # "EVENT" \/ rec.uEventID \notin 0 .. 7

WithoutNoise(w) == SelectSeq(w, LAMBDA rec : ~Noise(rec))

\* C11: a record that is not an event notification, or an event whose index
\* is outside 0..7, leaves all seven accumulator fields as they were and
\* does not end the drain; what a successful step writes is what it would
\* write for its window with those records taken out.
C11_NoiseLeavesAccumulator ==
  [][/\ (/\ Len(calls') = Len(calls) + 1
         /\ calls'[Len(calls')].fn = "GetNextDispatch"
         /\ calls'[Len(calls')].ok
         /\ Noise(calls'[Len(calls')].rec))
        => (data' = data /\ pc' = "drain" /\ ret' = ret)
     /\ (pc' = "idle" /\ lastOp' = "output" /\ ret' = "true")
        => written' = Expected(WithoutNoise(Consumed(calls')))]_vars

\* A step that consumed a value event and then a record without a case.
C11_Witness ==
  /\ StepDone
  /\ Len(Window) = 2
  /\ Window[1] = Event(2, 3)
  /\ Noise(Window[2])
  /\ written[2] = 3

\* C12: on return from a successful step all seven accumulator fields are at
\* the baseline, and a field is off the baseline only inside a step, between
\* the drain and the reset.
C12_BaselineBetweenSteps ==
  /\ StepDone => data = Baseline
  /\ data # Baseline => pc = "drain"

\* A step that wrote a non-zero output has returned with the accumulator reset.
C12_Witness ==
  /\ StepDone
  /\ HasEvent(Window)
  /\ written # AllZero
  /\ data = Baseline

\* ------------------------------------------------- the calls of initialize
\* Positions in a call log of the priority call and of the registration
\* calls (name mappings and group attachments).
PriorityCalls(log) ==
  {k \in 1 .. Len(log) : log[k].fn = "SetNotificationGroupPriority"}
RegistrationCalls(log) ==
  {k \in 1 .. Len(log) :
     log[k].fn \in {"MapClientEventToSimEvent",
                    "AddClientEventToNotificationGroup"}}
RegistrationFailed(log) == \E k \in RegistrationCalls(log) : ~log[k].ok
OpenSucceeded(log) == log # <<>> /\ log[1].fn = "Open" /\ log[1].ok

\* C13: during initialize the priority call is issued only after every
\* binding was registered successfully: it is not issued when a name mapping
\* or a group attachment failed, and when issued it comes after the last
\* registration call.
C13_PriorityOnlyAfterAllBound ==
  lastOp = "initialize" =>
    /\ RegistrationFailed(calls) => PriorityCalls(calls) = {}
    /\ \A p \in PriorityCalls(calls) :
         \A k \in RegistrationCalls(calls) : k < p

\* C13, amended: initialize issues the priority call exactly when the open
\* succeeded, whether or not a registration call failed; it is issued once,
\* on group 0, as the last call, after the name mapping of each of the
\* indices 0..7.
C13_PriorityAfterLastBinding ==
  lastOp = "initialize" =>
    /\ PriorityCalls(calls) # {} <=> OpenSucceeded(calls)
    /\ \A p \in PriorityCalls(calls) :
         /\ p = Len(calls)
         /\ calls[p].grp = 0
         /\ \A i \in 0 .. 7 :
              \E k \in 1 .. (p - 1) :
                calls[k].fn = "MapClientEventToSimEvent" /\ calls[k].id = i

\* An initialize in which a registration call failed and the priority call
\* was issued all the same.
C13_Witness ==
  /\ lastOp = "initialize"
  /\ ret = "false"
  /\ RegistrationFailed(calls)
  /\ PriorityCalls(calls) # {}

\* The name mappings of a call log, in order.
MapCalls(log) ==
  SelectSeq(log, LAMBDA c : c.fn = "MapClientEventToSimEvent")

\* Every name mapping that succeeded is followed at once by the attachment
\* of the same index to group 0, with the masking flag of the binding (set
\* for index 0 only); a name mapping that failed is not followed by an
\* attachment, and no attachment is issued otherwise.
MapThenAttach(log) ==
  \A k \in 1 .. Len(log) :
    /\ log[k].fn = "MapClientEventToSimEvent" =>
         /\ k < Len(log)
         /\ log[k].ok <=> log[k + 1].fn = "AddClientEventToNotificationGroup"
    /\ log[k].fn = "AddClientEventToNotificationGroup" =>
         /\ k > 1
         /\ log[k - 1].fn = "MapClientEventToSimEvent"
         /\ log[k - 1].ok
         /\ log[k - 1].id = log[k].id
         /\ log[k].grp = 0
         /\ log[k].val = (IF log[k].id = 0 THEN 1 ELSE 0)

\* C14: the registration of an initialize whose open succeeded covers
\* exactly 7 bindings, each by a name mapping followed by the attachment to
\* group 0 with the masking flag; no attachment follows a failed mapping.
C14_SevenBindings ==
  (lastOp = "initialize" /\ OpenSucceeded(calls)) =>
    /\ Len(MapCalls(calls)) = 7
    /\ MapThenAttach(calls)

\* C14, amended: the registration covers exactly the 8 bindings with the
\* indices 0..7 (6 and 7 feed one channel), in that order and under their
\* names, each by a name mapping followed by the attachment to group 0 with
\* the masking flag; no attachment follows a failed mapping.
C14_EightBindings ==
  (lastOp = "initialize" /\ OpenSucceeded(calls)) =>
    /\ Len(MapCalls(calls)) = 8
    /\ \A k \in 1 .. 8 :
         /\ MapCalls(calls)[k].id = k - 1
         /\ MapCalls(calls)[k].name = Bindings[k].name
    /\ MapThenAttach(calls)

\* The mapping of the eighth binding (index 7) failed: the priority call
\* follows it directly.
C14_Witness ==
  /\ lastOp = "initialize"
  /\ \E k \in 1 .. (Len(calls) - 1) :
       /\ calls[k].fn = "MapClientEventToSimEvent"
       /\ calls[k].id = 7
       /\ ~calls[k].ok
       /\ calls[k + 1].fn = "SetNotificationGroupPriority"

\* ---------------------------------------------------------------- teardown
\* C15: terminate, in whatever state the block is, issues one close on the
\* handle the block holds at that moment, leaves the handle null and returns
\* success.
C15_TerminateAlwaysCloses ==
  [][lastOp' = "terminate" =>
       /\ Len(calls') = 1
       /\ calls'[1].fn = "Close"
       /\ calls'[1].h = simConnectHandle
       /\ simConnectHandle' = NullHandle
       /\ ret' = "true"]_vars

\* terminate on a block that was already terminated: the close is issued on
\* the null handle.
C15_Witness ==
  /\ lastOp = "terminate"
  /\ lifecycle = "TERMINATED"
  /\ calls[1].fn = "Close"
  /\ calls[1].h = NullHandle
  /\ ret = "true"

\* C16: every handle an initialize opened is released exactly once at
\* teardown: after terminate no opened handle is left unreleased, and no
\* handle is closed that is not open.
C16_ReleasedExactlyOnce ==
  lastOp = "terminate" =>
    /\ opened = {}
    /\ calls[1].h # NullHandle => calls[1].live

\* ------------------------------------------------------------------- drain
\* C17: a drain consumes every record that was pending when it started,
\* each exactly once and in queue order, with one more request that finds
\* the queue empty, and leaves the queue empty.
C17_DrainConsumesAllInOrder ==
  [][(pc = "idle" /\ pc' = "idle" /\ lastOp' = "output" /\ ret' = "true") =>
       /\ Consumed(calls') = pending
       /\ Len(calls') = Len(pending) + 1
       /\ pending' = <<>>]_vars

\* A step that consumed two different records in the order they arrived.
C17_Witness ==
  /\ StepDone
  /\ Window = <<Event(1, 3), Event(4, 3)>>
  /\ Len(calls) = 3
  /\ pending = <<>>

\* C18: a step that fails on an unresolvable signal issues no request and
\* leaves the queue as it was; a successful step that follows it directly
\* writes what the records still pending call for.
C18_FailedStepKeepsQueue ==
  [][/\ (lastOp' = "output" /\ ret' = "false")
        => (pending' = pending /\ calls' = <<>>)
     /\ (/\ lastOp = "output" /\ ret = "false"
         /\ lastOp' = "output" /\ ret' = "true")
        => (written' = Expected(pending) /\ Consumed(calls') = pending)]_vars

\* A failed step that found two event records pending and left both.
C18_Witness ==
  /\ lastOp = "output"
  /\ ret = "false"
  /\ pending = <<Event(2, 3), Event(6, 3)>>
  /\ calls = <<>>

\* C19: in every state the five pulse fields of the accumulator hold 0 or 1,
\* and every value written to a pulse channel is 0 or 1.
C19_PulsesAreBinary ==
  /\ {data.apMaster, data.apMasterOff, data.apPanelVsOn, data.apLocHold,
      data.apAprHold} \subseteq {0, 1}
  /\ written # NoWrites => \A c \in PulseChannels : written[c] \in {0, 1}

\* Mid-drain, after the same pulse event was consumed twice with a payload
\* that is neither 0 nor 1.
C19_Witness ==
  /\ pc = "drain"
  /\ Consumed(calls) = <<Event(4, 3), Event(4, 3)>>
  /\ data.apPanelVsOn = 1

====
